---- MODULE Spec2Model ----
(***************************************************************************)
(* Model of ubiqua-integration-test.py: a one-shot ETL job that reads      *)
(* orders from PostgreSQL through one named (server-side) cursor,          *)
(* aggregates each order with its client, order-item and product rows, and *)
(* bulk-inserts the resulting documents into a MongoDB collection; plus    *)
(* the locale-swapping helper weekday_short_name.                          *)
(*                                                                         *)
(* Amounts are integers in hundredths (unit_price 1000 is 10.00) and tax   *)
(* rates are integer percentages, so that quantity * price and             *)
(* subtotal * rate are exact; float rounding is not modelled.              *)
(***************************************************************************)
EXTENDS Integers, Sequences, FiniteSets, TLC

\* ------------------------------------------------------------------ bounds
MaxItems == 3
MaxQty == 2
MaxOrders == 2
MaxRuns == 2
MaxThreads == 2

\* psycopg's ServerCursor fetches this many rows per round trip when it is
\* iterated; the cursor of line 73 is created with the default.
itersize == 100

VARIABLES
    \* --- aggregation of one order, stepped (lines 82-106)
    agg_in, agg_i, agg_acc, agg_pc, agg_brand,
    \* --- the source store and the read phase (lines 72-125)
    src_orders, src_items, pc, conn_open, cur, recs, fetched, orders, err, crash_uid,
    \* --- the destination store and the write phase (lines 127-143)
    dest, dest_index, batch, dest_pre, inserts, index_step, write_errors,
    \* --- runs of the whole job
    run, dest0, prev_dest, prev_status,
    \* --- weekday_short_name called from threads (lines 46-65)
    nthreads, lc_all, lc0, tpc, tlock, saved, tdate, tcode, tres, texc

aggVars == <<agg_in, agg_i, agg_acc, agg_pc, agg_brand>>
readVars == <<src_orders, src_items, pc, conn_open, cur, recs, fetched, orders, err, crash_uid>>
writeVars == <<dest, dest_index, batch, dest_pre, inserts, index_step, write_errors>>
runVars == <<run, dest0, prev_dest, prev_status>>
locVars == <<nthreads, lc_all, lc0, tpc, tlock, saved, tdate, tcode, tres, texc>>
vars == <<aggVars, readVars, writeVars, runVars, locVars>>

\* ------------------------------------------------------- the source tables
\* Rows of table products (uid is unique).
products_tbl ==
    << [tbl |-> "products", uid |-> "p1", unit_price |-> 1000, tax_rate |-> 10, brand |-> "A"],
       [tbl |-> "products", uid |-> "p2", unit_price |-> 500,  tax_rate |-> 20, brand |-> "B"],
       [tbl |-> "products", uid |-> "p3", unit_price |-> 250,  tax_rate |-> 0,  brand |-> "C"] >>

ProductUids == {"p1", "p2", "p3"}

\* Rows of table clients (uid is unique).
clients_tbl ==
    << [tbl |-> "clients", uid |-> "c1", promotion_day |-> "MON"],
       [tbl |-> "clients", uid |-> "c2", promotion_day |-> "TUE"] >>

\* "SELECT * FROM products WHERE uid = %s"
SelectProducts(uid) == SelectSeq(products_tbl, LAMBDA r : r.uid = uid)

\* "SELECT * FROM clients WHERE uid = %s"
SelectClients(uid) == SelectSeq(clients_tbl, LAMBDA r : r.uid = uid)

\* "SELECT * FROM order_items WHERE order_uid = %s"
SelectOrderItems(items, uid) == SelectSeq(items, LAMBDA r : r.order_uid = uid)

\* ------------------------------------------------------ the item loop body
\* quantity * float(unit_price)
Mul(quantity, price) == quantity * price

\* amount * float(tax_rate), the rate a percentage
TimesRate(amount, rate) == (amount * rate) \div 100

OrderItem(product, order_detail) ==
    [uid |-> product.uid, quantity |-> order_detail.quantity,
     price |-> product.unit_price, brand |-> product.brand]

ZeroAcc == [subtotal |-> 0, taxes |-> 0, total |-> 0, items |-> <<>>]

\* A plausible slip: the tax summed item by item.
LoopStepPerItemTax(acc, order_detail, product) ==
    LET sub == acc.subtotal + Mul(order_detail.quantity, product.unit_price)
        tax == acc.taxes + TimesRate(Mul(order_detail.quantity, product.unit_price), product.tax_rate)
    IN  [subtotal |-> sub, taxes |-> tax, total |-> sub + tax,
         items |-> Append(acc.items, OrderItem(product, order_detail))]

\* One pass of the loop over order_details, the product row found.
LoopStep(acc, order_detail, product) ==
    LET sub == acc.subtotal + Mul(order_detail.quantity, product.unit_price)
        tax == TimesRate(sub, product.tax_rate)
    IN  [subtotal |-> sub, taxes |-> tax, total |-> sub + tax,
         items |-> Append(acc.items, OrderItem(product, order_detail))]

\* max(order_items, key=lambda oi: oi.quantity) keeps the first element and
\* replaces it only by a strictly larger one; "best" is the index kept so far.
RECURSIVE MaxScan(_, _, _)
MaxScan(items, best, i) ==
    IF i > Len(items) THEN best
    ELSE MaxScan(items, IF items[i].quantity > items[best].quantity THEN i ELSE best, i + 1)

RECURSIVE MaxScanLast(_, _, _)
MaxScanLast(items, best, i) ==
    IF i > Len(items) THEN best
    ELSE MaxScanLast(items, IF items[i].quantity >= items[best].quantity THEN i ELSE best, i + 1)

\* A plausible slip: a later element of equal quantity replaces the kept one.
PyMaxByQuantityLast(items) == MaxScanLast(items, 1, 2)

\* Index of max(order_items, key=...), for a non-empty list.
PyMaxByQuantity(items) == MaxScan(items, 1, 2)

\* max(order_items, key=...).brand: <<brand>>, or <<>> for the ValueError that
\* max() raises on an empty sequence.
MostPopularBrand(items) ==
    IF items = <<>> THEN <<>> ELSE << items[PyMaxByQuantity(items)].brand >>

\* ------------------------------------------------------------ weekday names
\* datetime values are day ordinals counted from a Monday; NoDate is a NULL
\* date_of_order (None).
NoDate == 0 - 1

\* The dates the threads pass: a Monday, or None.
CallDates == {0, NoDate}

Weekday(date) == date % 7

Supported == {"C", "en_US.UTF-8", "es_ES.UTF-8"}
LocaleCodes == {"en_US.UTF-8", "es_ES.UTF-8", "xx_XX"}

EnNames == <<"Mon", "Tue", "Wed", "Thu", "Fri", "Sat", "Sun">>
EsNames == <<"lun", "mar", "mie", "jue", "vie", "sab", "dom">>
EnUpper == <<"MON", "TUE", "WED", "THU", "FRI", "SAT", "SUN">>
EsUpper == <<"LUN", "MAR", "MIE", "JUE", "VIE", "SAB", "DOM">>

\* date.strftime("%a") under the process-wide locale lc
Strftime_a(date, lc) ==
    IF lc = "es_ES.UTF-8" THEN EsNames[Weekday(date) + 1] ELSE EnNames[Weekday(date) + 1]

\* str.upper()
Upper(s) ==
    LET names == EnNames \o EsNames
        upper == EnUpper \o EsUpper
    IN  upper[CHOOSE i \in 1..Len(names) : names[i] = s]

\* A plausible slip: no try/finally, the locale restored on normal exit only.
LocaleAfterExitNoFinally(saved_lc, current_lc, exc) ==
    IF exc = "" THEN saved_lc ELSE current_lc

\* setlocale's finally clause: locale.setlocale(locale.LC_ALL, saved)
LocaleAfterExit(saved_lc, current_lc, exc) == saved_lc

\* A call of weekday_short_name on the only thread, with a supported locale
\* and a date: the value returned (the locale is swapped and swapped back).
WeekdayShortName(date, locale_code) == Upper(Strftime_a(date, locale_code))

\* ---------------------------------------------------------- idle components
AggIdle ==
    /\ agg_in = <<>> /\ agg_i = 1 /\ agg_acc = ZeroAcc /\ agg_pc = "off" /\ agg_brand = ""

ReadIdle ==
    /\ src_orders = <<>> /\ src_items = <<>> /\ pc = "off" /\ conn_open = FALSE
    /\ cur = <<>> /\ recs = <<>> /\ fetched = 0 - 1 /\ orders = <<>> /\ err = "" /\ crash_uid = 0

WriteIdle ==
    /\ dest = <<>> /\ dest_index = FALSE /\ batch = <<>> /\ dest_pre = <<>>
    /\ inserts = 0 /\ index_step = "none" /\ write_errors = 0

RunIdle ==
    /\ run = 1 /\ dest0 = <<>> /\ prev_dest = <<>> /\ prev_status = ""

Threads == 1..MaxThreads

LocaleIdle ==
    /\ nthreads = 0 /\ lc_all = "C" /\ lc0 = "C"
    /\ tpc = [t \in Threads |-> "idle"]
    /\ tlock = [t \in Threads |-> "none"]
    /\ saved = [t \in Threads |-> ""]
    /\ tdate = [t \in Threads |-> NoDate]
    /\ tcode = [t \in Threads |-> ""]
    /\ tres = [t \in Threads |-> ""]
    /\ texc = [t \in Threads |-> ""]

\* ------------------------------------------- aggregation of one order's rows
\* The (order-item, product) pairs of one order: every product_uid names a
\* product row.
DetailRows == [order_uid : {1}, product_uid : ProductUids, quantity : 0..MaxQty]

SeqsUpTo(S, n) == UNION {[1..k -> S] : k \in 0..n}

InitAgg ==
    /\ agg_in \in SeqsUpTo(DetailRows, MaxItems)
    /\ agg_i = 1 /\ agg_acc = ZeroAcc /\ agg_pc = "loop" /\ agg_brand = ""
    /\ ReadIdle /\ WriteIdle /\ RunIdle /\ LocaleIdle

\* lines 87-103: one iteration of "for order_detail in order_details"
AggLoop ==
    /\ agg_pc = "loop"
    /\ agg_i <= Len(agg_in)
    /\ LET order_detail == agg_in[agg_i]
           product == SelectProducts(order_detail.product_uid)[1]
       IN  agg_acc' = LoopStep(agg_acc, order_detail, product)
    /\ agg_i' = agg_i + 1
    /\ UNCHANGED <<agg_in, agg_pc, agg_brand, readVars, writeVars, runVars, locVars>>

\* line 106: max(order_items, ...).brand after the loop
AggFinish ==
    /\ agg_pc = "loop"
    /\ agg_i > Len(agg_in)
    /\ LET b == MostPopularBrand(agg_acc.items)
       IN  /\ agg_pc' = IF b = <<>> THEN "raised" ELSE "done"
           /\ agg_brand' = IF b = <<>> THEN "" ELSE b[1]
    /\ UNCHANGED <<agg_in, agg_i, agg_acc, readVars, writeVars, runVars, locVars>>

NextAgg == AggLoop \/ AggFinish

SpecAgg == InitAgg /\ [][NextAgg]_vars

\* ------------------------------------------- weekday_short_name from threads
InitLocale ==
    /\ nthreads \in 1..MaxThreads
    /\ lc0 \in {"C", "es_ES.UTF-8"}
    /\ lc_all = lc0
    /\ tpc = [t \in Threads |-> "idle"]
    /\ tlock = [t \in Threads |-> "none"]
    /\ saved = [t \in Threads |-> ""]
    /\ tdate = [t \in Threads |-> NoDate]
    /\ tcode = [t \in Threads |-> ""]
    /\ tres = [t \in Threads |-> ""]
    /\ texc = [t \in Threads |-> ""]
    /\ AggIdle /\ ReadIdle /\ WriteIdle /\ RunIdle

\* line 64: a thread calls weekday_short_name(date, locale_code)
Call(t) ==
    /\ t <= nthreads
    /\ tpc[t] = "idle"
    /\ \E d \in CallDates, c \in LocaleCodes :
          /\ tdate' = [tdate EXCEPT ![t] = d]
          /\ tcode' = [tcode EXCEPT ![t] = c]
    /\ tpc' = [tpc EXCEPT ![t] = "lock"]
    /\ UNCHANGED <<nthreads, lc_all, lc0, tlock, saved, tres, texc>>
    /\ UNCHANGED <<aggVars, readVars, writeVars, runVars>>

\* line 48: "with threading.Lock()": a new lock is made by this call and
\* acquired; no other thread holds a reference to it, so it never blocks.
LockAcquire(t) ==
    /\ tpc[t] = "lock"
    /\ tlock[t] # "held"
    /\ tlock' = [tlock EXCEPT ![t] = "held"]
    /\ tpc' = [tpc EXCEPT ![t] = "save"]
    /\ UNCHANGED <<nthreads, lc_all, lc0, saved, tdate, tcode, tres, texc>>
    /\ UNCHANGED <<aggVars, readVars, writeVars, runVars>>

\* line 49: saved = locale.setlocale(locale.LC_ALL)
Save(t) ==
    /\ tpc[t] = "save"
    /\ saved' = [saved EXCEPT ![t] = lc_all]
    /\ tpc' = [tpc EXCEPT ![t] = "set"]
    /\ UNCHANGED <<nthreads, lc_all, lc0, tlock, tdate, tcode, tres, texc>>
    /\ UNCHANGED <<aggVars, readVars, writeVars, runVars>>

\* line 52: locale.setlocale(locale.LC_ALL, code), which raises locale.Error for
\* a locale the system does not have.
SetLocale(t) ==
    /\ tpc[t] = "set"
    /\ IF tcode[t] \in Supported
       THEN /\ lc_all' = tcode[t]
            /\ tpc' = [tpc EXCEPT ![t] = "body"]
            /\ texc' = texc
       ELSE /\ lc_all' = lc_all
            /\ tpc' = [tpc EXCEPT ![t] = "restore"]
            /\ texc' = [texc EXCEPT ![t] = "locale.Error"]
    /\ UNCHANGED <<nthreads, lc0, tlock, saved, tdate, tcode, tres>>
    /\ UNCHANGED <<aggVars, readVars, writeVars, runVars>>

\* line 65: date.strftime("%a").upper() under the locale in effect now; None
\* has no strftime (AttributeError).
Body(t) ==
    /\ tpc[t] = "body"
    /\ IF tdate[t] = NoDate
       THEN /\ texc' = [texc EXCEPT ![t] = "AttributeError"]
            /\ UNCHANGED tres
       ELSE /\ tres' = [tres EXCEPT ![t] = Upper(Strftime_a(tdate[t], lc_all))]
            /\ texc' = texc
    /\ tpc' = [tpc EXCEPT ![t] = "restore"]
    /\ UNCHANGED <<nthreads, lc_all, lc0, tlock, saved, tdate, tcode>>
    /\ UNCHANGED <<aggVars, readVars, writeVars, runVars>>

\* lines 53-54: finally: locale.setlocale(locale.LC_ALL, saved)
Restore(t) ==
    /\ tpc[t] = "restore"
    /\ lc_all' = LocaleAfterExit(saved[t], lc_all, texc[t])
    /\ tpc' = [tpc EXCEPT ![t] = "release"]
    /\ UNCHANGED <<nthreads, lc0, tlock, saved, tdate, tcode, tres, texc>>
    /\ UNCHANGED <<aggVars, readVars, writeVars, runVars>>

\* line 48, leaving the with block: the call's lock is released; the call
\* returns its value or the exception propagates.
Release(t) ==
    /\ tpc[t] = "release"
    /\ tlock' = [tlock EXCEPT ![t] = "released"]
    /\ tpc' = [tpc EXCEPT ![t] = IF texc[t] = "" THEN "returned" ELSE "raised"]
    /\ UNCHANGED <<nthreads, lc_all, lc0, saved, tdate, tcode, tres, texc>>
    /\ UNCHANGED <<aggVars, readVars, writeVars, runVars>>

NextLocale ==
    \E t \in Threads :
        \/ Call(t) \/ LockAcquire(t) \/ Save(t) \/ SetLocale(t)
        \/ Body(t) \/ Restore(t) \/ Release(t)

SpecLocale == InitLocale /\ [][NextLocale]_vars

\* ------------------------------------------------------ the named cursor
\* cursor.fetchone() on the rows the server-side cursor still holds: the row
\* (<<>> for None) and what the cursor holds afterwards.
FetchOne(rows) ==
    IF rows = <<>> THEN [row |-> <<>>, rest |-> <<>>]
    ELSE [row |-> <<Head(rows)>>, rest |-> Tail(rows)]

\* One round trip of the cursor's iterator: FETCH FORWARD itersize.
FetchBatch(rows) ==
    IF Len(rows) <= itersize THEN [recs |-> rows, rest |-> <<>>]
    ELSE [recs |-> SubSeq(rows, 1, itersize), rest |-> SubSeq(rows, itersize + 1, Len(rows))]

\* lines 87-103 with the product lookup of lines 88-90: each lookup re-executes
\* the one named cursor, which then holds that query's rows. st.err is the
\* error raised (product is None at line 91), st.cur what the cursor holds.
RECURSIVE ItemLoop(_, _, _)
ItemLoop(order_details, i, st) ==
    IF i > Len(order_details) THEN st
    ELSE LET f == FetchOne(SelectProducts(order_details[i].product_uid))
         IN  IF f.row = <<>>
             THEN [st EXCEPT !.err = "TypeError", !.cur = f.rest]
             ELSE ItemLoop(order_details, i + 1,
                           [acc |-> LoopStep(st.acc, order_details[i], f.row[1]),
                            cur |-> f.rest, err |-> ""])

\* lines 108-125: the Order appended (fields copied verbatim from the order
\* and client rows are kept to uid, date_of_order and client_uid).
Order(order, client, acc, is_promotion_day, most_popular_brand) ==
    [uid |-> order.uid, date_of_order |-> order.date_of_order, client_uid |-> client.uid,
     subtotal |-> acc.subtotal, taxes |-> acc.taxes, total |-> acc.total,
     is_promotion_day |-> is_promotion_day, most_popular_brand |-> most_popular_brand,
     order_items |-> acc.items]

\* lines 78-125, the body of "for order in order_query" for one row the
\* iterator yields: err is the exception that leaves the loop ("" for none),
\* order the Order appended, cur what the named cursor holds afterwards.
LoopBodyResult(order, items) ==
    IF order.tbl # "orders"
    THEN [err |-> "KeyError", order |-> <<>>, cur |-> <<>>]
    ELSE
    LET c == FetchOne(SelectClients(order.client_uid))
        order_details == SelectOrderItems(items, order.uid)
        st == ItemLoop(order_details, 1, [acc |-> ZeroAcc, cur |-> <<>>, err |-> ""])
        brand == MostPopularBrand(st.acc.items)
    IN  IF st.err # "" THEN [err |-> st.err, order |-> <<>>, cur |-> st.cur]
        ELSE IF c.row = <<>> THEN [err |-> "TypeError", order |-> <<>>, cur |-> st.cur]
        ELSE IF brand = <<>> THEN [err |-> "ValueError", order |-> <<>>, cur |-> st.cur]
        ELSE [err |-> "",
              order |-> << Order(order, c.row[1], st.acc,
                                 WeekdayShortName(order.date_of_order, "en_US.UTF-8")
                                     = c.row[1].promotion_day,
                                 brand[1]) >>,
              cur |-> st.cur]

\* ------------------------------------------------- the destination collection
UidsOf(docs) == {docs[i].uid : i \in 1..Len(docs)}

CountUid(docs, uid) == Cardinality({i \in 1..Len(docs) : docs[i].uid = uid})

HasDuplicateUid(docs) == \E i, j \in 1..Len(docs) : i < j /\ docs[i].uid = docs[j].uid

\* line 136: create_index("uid", unique=True): nothing to do when the index
\* exists; DuplicateKeyError when the collection holds a uid twice.
CreateIndex(docs, has_unique) ==
    IF has_unique THEN [raised |-> FALSE, unique |-> TRUE]
    ELSE IF HasDuplicateUid(docs) THEN [raised |-> TRUE, unique |-> FALSE]
    ELSE [raised |-> FALSE, unique |-> TRUE]

\* Whether document i of the batch is stored: under the unique index, when no
\* stored document and no earlier document of the batch has its uid.
Accepted(coll, docs, unique, i) ==
    \/ ~unique
    \/ /\ docs[i].uid \notin UidsOf(coll)
       /\ \A j \in 1..(i - 1) : docs[j].uid # docs[i].uid

\* Documents 1..upto of the batch that are stored, in batch order.
Stored(coll, docs, unique, upto) ==
    LET numbered == [i \in 1..upto |-> [i |-> i, doc |-> docs[i]]]
        kept == SelectSeq(numbered, LAMBDA p : Accepted(coll, docs, unique, p.i))
    IN  [k \in 1..Len(kept) |-> kept[k].doc]

\* A plausible slip: insert_many(documents), ordered, stops at the first error.
InsertManyOrdered(coll, docs, unique) ==
    LET bad == {i \in 1..Len(docs) : ~Accepted(coll, docs, unique, i)}
        first == IF bad = {} THEN Len(docs) + 1
                 ELSE CHOOSE i \in bad : \A j \in bad : i <= j
    IN  [coll |-> coll \o SubSeq(docs, 1, first - 1),
         errors |-> IF bad = {} THEN 0 ELSE 1]

\* line 137: insert_many(documents, ordered=False): every document is tried;
\* errors > 0 is the BulkWriteError raised after all were tried.
InsertMany(coll, docs, unique) ==
    LET kept == Stored(coll, docs, unique, Len(docs))
    IN  [coll |-> coll \o kept, errors |-> Len(docs) - Len(kept)]

\* ------------------------------------------------------------ initial states
Shapes == {"none", "two", "bad"}

\* The order_items rows of one order, by shape: none, two rows of equal
\* quantity, or a row whose product_uid names no product.
ItemRows(uid, shape) ==
    IF shape = "none" THEN <<>>
    ELSE IF shape = "two"
    THEN << [tbl |-> "order_items", order_uid |-> uid, product_uid |-> "p1", quantity |-> 2],
            [tbl |-> "order_items", order_uid |-> uid, product_uid |-> "p2", quantity |-> 2] >>
    ELSE << [tbl |-> "order_items", order_uid |-> uid, product_uid |-> "p1", quantity |-> 1],
            [tbl |-> "order_items", order_uid |-> uid, product_uid |-> "pX", quantity |-> 1] >>

OrderRow(uid, client_uid) ==
    [tbl |-> "orders", uid |-> uid, client_uid |-> client_uid, date_of_order |-> uid - 1]

RECURSIVE Concat(_)
Concat(ss) == IF ss = <<>> THEN <<>> ELSE Head(ss) \o Concat(Tail(ss))

\* A document left in the collection by something else.
StaleDoc(uid) ==
    [uid |-> uid, date_of_order |-> 0, client_uid |-> "c1", subtotal |-> 0, taxes |-> 0,
     total |-> 0, is_promotion_day |-> FALSE, most_popular_brand |-> "", order_items |-> <<>>]

\* Small tables: orders with distinct uids in any order, each with a client
\* that exists or not and one of the item shapes.
InitSmall ==
    /\ \E n \in 0..MaxOrders :
       \E u \in [1..n -> 1..MaxOrders], c \in [1..n -> {"c1", "cX"}], sh \in [1..n -> Shapes] :
          /\ \A i, j \in 1..n : i # j => u[i] # u[j]
          /\ src_orders = [i \in 1..n |-> OrderRow(u[i], c[i])]
          /\ src_items = Concat([i \in 1..n |-> ItemRows(u[i], sh[i])])
    /\ \E d \in {<<>>, <<StaleDoc(1)>>, <<StaleDoc(1), StaleDoc(1)>>} :
          /\ dest = d
          /\ dest_index = (Len(d) = 1)

\* Tables with more orders than one round trip of the iterator fetches; the
\* last order's client exists or not.
InitLarge ==
    /\ \E last \in {"c1", "cX"} :
          src_orders = [i \in 1..(itersize + 1) |->
                           OrderRow(i, IF i = itersize + 1 THEN last ELSE "c1")]
    /\ src_items = Concat([i \in 1..(itersize + 1) |-> ItemRows(i, "two")])
    /\ dest = <<>>
    /\ dest_index = FALSE

Init ==
    /\ InitSmall \/ InitLarge
    /\ pc = "connect" /\ conn_open = FALSE /\ cur = <<>> /\ recs = <<>>
    /\ fetched = 0 - 1 /\ orders = <<>> /\ err = "" /\ crash_uid = 0
    /\ batch = <<>> /\ dest_pre = dest /\ inserts = 0 /\ index_step = "none"
    /\ write_errors = 0
    /\ run = 1 /\ dest0 = dest /\ prev_dest = <<>> /\ prev_status = ""
    /\ AggIdle /\ LocaleIdle

\* ------------------------------------------------------------ the read phase
\* lines 72-75: connect, open the named cursor, execute the orders query
Connect ==
    /\ pc = "connect"
    /\ conn_open' = TRUE
    /\ cur' = src_orders
    /\ orders' = <<>>
    /\ recs' = <<>>
    /\ fetched' = 0 - 1
    /\ pc' = "iter"
    /\ UNCHANGED <<src_orders, src_items, err, crash_uid>>
    /\ UNCHANGED <<aggVars, writeVars, runVars, locVars>>

\* line 77: the iterator of the cursor fetches its next batch, from whatever
\* the named cursor holds now (the first batch, or after a full batch was
\* consumed).
IterFetch ==
    /\ pc = "iter"
    /\ recs = <<>>
    /\ fetched \in {0 - 1, itersize}
    /\ LET b == FetchBatch(cur)
       IN  /\ recs' = b.recs
           /\ cur' = b.rest
           /\ fetched' = Len(b.recs)
    /\ UNCHANGED <<src_orders, src_items, pc, conn_open, orders, err, crash_uid>>
    /\ UNCHANGED <<aggVars, writeVars, runVars, locVars>>

\* lines 77-125: the loop body for the next row of the batch; an exception
\* leaves both with blocks (cursor and connection closed) and ends the run.
LoopBody ==
    /\ pc = "iter"
    /\ recs # <<>>
    /\ LET r == LoopBodyResult(Head(recs), src_items)
       IN  IF r.err = ""
           THEN /\ orders' = orders \o r.order
                /\ cur' = r.cur
                /\ recs' = Tail(recs)
                /\ UNCHANGED <<pc, conn_open, err, crash_uid>>
           ELSE /\ pc' = "crashed"
                /\ err' = r.err
                /\ crash_uid' = Head(recs).uid
                /\ conn_open' = FALSE
                /\ cur' = <<>>
                /\ recs' = <<>>
                /\ UNCHANGED orders
    /\ UNCHANGED <<src_orders, src_items, fetched>>
    /\ UNCHANGED <<aggVars, writeVars, runVars, locVars>>

\* lines 72-77: the iterator ends (its last batch was short); the cursor and
\* the connection are closed on leaving the with blocks.
ReadDone ==
    /\ pc = "iter"
    /\ recs = <<>>
    /\ fetched \notin {0 - 1, itersize}
    /\ conn_open' = FALSE
    /\ cur' = <<>>
    /\ pc' = "write"
    /\ UNCHANGED <<src_orders, src_items, recs, fetched, orders, err, crash_uid>>
    /\ UNCHANGED <<aggVars, writeVars, runVars, locVars>>

\* ----------------------------------------------------------- the write phase
\* lines 127-143: create_index, then insert_many, DuplicateKeyError and
\* BulkWriteError caught. insert_many raises TypeError for an empty list
\* before anything is sent, which nothing catches.
Write ==
    /\ pc = "write"
    /\ batch' = orders
    /\ dest_pre' = dest
    /\ LET ci == CreateIndex(dest, dest_index)
       IN  IF ci.raised
           THEN /\ index_step' = "failed"
                /\ pc' = "done"
                /\ UNCHANGED <<dest, dest_index, inserts, write_errors, err>>
           ELSE IF orders = <<>>
           THEN /\ index_step' = "ok"
                /\ dest_index' = ci.unique
                /\ pc' = "crashed"
                /\ err' = "TypeError"
                /\ UNCHANGED <<dest, inserts, write_errors>>
           ELSE LET r == InsertMany(dest, orders, ci.unique)
                IN  /\ index_step' = "ok"
                    /\ dest_index' = ci.unique
                    /\ dest' = r.coll
                    /\ inserts' = inserts + 1
                    /\ write_errors' = r.errors
                    /\ pc' = "done"
                    /\ UNCHANGED err
    /\ UNCHANGED <<src_orders, src_items, conn_open, cur, recs, fetched, orders, crash_uid>>
    /\ UNCHANGED <<aggVars, runVars, locVars>>

\* The job is started again on the same source data.
Rerun ==
    /\ pc \in {"done", "crashed"}
    /\ run < MaxRuns
    /\ run' = run + 1
    /\ prev_status' = pc
    /\ prev_dest' = dest
    /\ pc' = "connect"
    /\ orders' = <<>> /\ recs' = <<>> /\ fetched' = 0 - 1 /\ err' = "" /\ crash_uid' = 0
    /\ batch' = <<>> /\ dest_pre' = dest /\ inserts' = 0 /\ index_step' = "none"
    /\ write_errors' = 0
    /\ UNCHANGED <<src_orders, src_items, conn_open, cur, dest, dest_index, dest0>>
    /\ UNCHANGED <<aggVars, locVars>>

Next == Connect \/ IterFetch \/ LoopBody \/ ReadDone \/ Write \/ Rerun

Spec == Init /\ [][Next]_vars

\* ===================================================================== claims
ProductOf(uid) == CHOOSE r \in {products_tbl[i] : i \in 1..Len(products_tbl)} : r.uid = uid

RECURSIVE SumQtyPrice(_)
SumQtyPrice(details) ==
    IF details = <<>> THEN 0
    ELSE Head(details).quantity * ProductOf(Head(details).product_uid).unit_price
         + SumQtyPrice(Tail(details))

\* C1: for an order with a non-empty sequence of (order-item, product) pairs,
\* after aggregation subtotal is the sum of quantity * unit_price over all
\* pairs, taxes is that full subtotal times the tax rate of the last pair, and
\* total is subtotal + taxes.
C1_TaxOfLastRateOnFullSubtotal ==
    (agg_pc = "done" /\ agg_in # <<>>) =>
        /\ agg_acc.subtotal = SumQtyPrice(agg_in)
        /\ agg_acc.taxes * 100
             = SumQtyPrice(agg_in) * ProductOf(agg_in[Len(agg_in)].product_uid).tax_rate
        /\ agg_acc.total = agg_acc.subtotal + agg_acc.taxes

\* The example of the design: (2 x 10.00 at 10%), (1 x 5.00 at 20%) gives
\* subtotal 25.00, taxes 5.00, total 30.00.
C1_Witness ==
    /\ agg_pc = "done"
    /\ agg_in = << [order_uid |-> 1, product_uid |-> "p1", quantity |-> 2],
                   [order_uid |-> 1, product_uid |-> "p2", quantity |-> 1] >>
    /\ agg_acc.subtotal = 2500 /\ agg_acc.taxes = 500 /\ agg_acc.total = 3000

\* C2: for an order with at least one item, most_popular_brand is the brand of
\* the first item, in query order, whose quantity is the maximum quantity.
C2_FirstMaxWins ==
    (agg_pc = "done") =>
        \E i \in 1..Len(agg_in) :
            /\ \A j \in 1..Len(agg_in) : agg_in[j].quantity <= agg_in[i].quantity
            /\ \A j \in 1..(i - 1) : agg_in[j].quantity < agg_in[i].quantity
            /\ agg_brand = ProductOf(agg_in[i].product_uid).brand

\* Quantities [2, 2, 1] of brands [A, B, C] give A.
C2_Witness ==
    /\ agg_pc = "done"
    /\ agg_in = << [order_uid |-> 1, product_uid |-> "p1", quantity |-> 2],
                   [order_uid |-> 1, product_uid |-> "p2", quantity |-> 2],
                   [order_uid |-> 1, product_uid |-> "p3", quantity |-> 1] >>
    /\ agg_brand = "A"

ClientExists(uid) == SelectClients(uid) # <<>>

Dangling ==
    \/ \E i \in 1..Len(src_orders) : ~ClientExists(src_orders[i].client_uid)
    \/ \E i \in 1..Len(src_orders) :
          \E k \in 1..Len(src_items) :
             /\ src_items[k].order_uid = src_orders[i].uid
             /\ SelectProducts(src_items[k].product_uid) = <<>>

\* C3: an order whose order-items lookup returns no rows does not crash the
\* aggregator: no run ends with an exception raised while aggregating an
\* order that has a client and zero order-item rows.
C3_EmptyOrderDoesNotCrash ==
    \A i \in 1..Len(src_orders) :
        (/\ ClientExists(src_orders[i].client_uid)
         /\ SelectOrderItems(src_items, src_orders[i].uid) = <<>>)
        => ~(pc = "crashed" /\ crash_uid = src_orders[i].uid)

EveryOrderHasItems ==
    \A i \in 1..Len(src_orders) : SelectOrderItems(src_items, src_orders[i].uid) # <<>>

\* C4: when the job has been run again on the same source data, the second
\* run ends without an unhandled error, the collection holds the same
\* documents as after the run before, and, unless the collection held a uid
\* twice before the first run, exactly one document for each order uid of the
\* batch. Stated for the source data on which the read phase raises nothing:
\* every client and product referenced has a row (C7) and every order has an
\* order-item (C3).
C4_RerunIdempotent ==
    (~Dangling /\ EveryOrderHasItems /\ run >= 2 /\ pc \in {"done", "crashed"}) =>
        /\ pc = "done"
        /\ dest = prev_dest
        /\ ~HasDuplicateUid(dest0) =>
               \A k \in 1..Len(batch) : CountUid(dest, batch[k].uid) = 1

\* What holds of a re-run: after a run that completed, the next run completes
\* too (DuplicateKeyError and BulkWriteError caught) and leaves the
\* collection as it was, with one document for each order uid of the batch.
RerunAfterCompletedRunIdempotent ==
    (run >= 2 /\ pc \in {"done", "crashed"} /\ prev_status = "done") =>
        /\ pc = "done"
        /\ dest = prev_dest
        /\ ~HasDuplicateUid(dest0) =>
               \A k \in 1..Len(batch) : CountUid(dest, batch[k].uid) = 1

Colliding(docs, coll) == {k \in 1..Len(docs) : docs[k].uid \in UidsOf(coll)}

\* C5: in a run's bulk insert of N documents of which exactly one has a uid
\* already in the collection, the other N-1 documents are all stored by that
\* run, wherever the colliding document is in the batch.
C5_OthersPersisted ==
    (pc = "done" /\ inserts = 1 /\ Cardinality(Colliding(batch, dest_pre)) = 1) =>
        \A k \in 1..Len(batch) :
            k \notin Colliding(batch, dest_pre) =>
                /\ \E m \in 1..Len(dest) : dest[m] = batch[k]
                /\ \A m \in 1..Len(dest_pre) : dest_pre[m] # batch[k]

\* The colliding document is first in a batch of two, the second is stored.
C5_Witness ==
    /\ pc = "done" /\ inserts = 1 /\ Len(batch) = 2
    /\ Colliding(batch, dest_pre) = {1}
    /\ write_errors = 1
    /\ dest[Len(dest)] = batch[2]

ItemKeys(rows) == [k \in 1..Len(rows) |-> <<rows[k].product_uid, rows[k].quantity>>]

OrderItemKeys(items) == [k \in 1..Len(items) |-> <<items[k].uid, items[k].quantity>>]

\* C6: when the reading phase completes, the orders list holds exactly one
\* Order per row of the all-orders query, in that query's row order, each
\* with its order_items in the order-items query's row order.
C6_OneOrderPerRowInOrder ==
    (pc = "write") =>
        /\ Len(orders) = Len(src_orders)
        /\ \A i \in 1..Len(orders) :
              i <= Len(src_orders) =>
                 /\ orders[i].uid = src_orders[i].uid
                 /\ OrderItemKeys(orders[i].order_items)
                      = ItemKeys(SelectOrderItems(src_items, src_orders[i].uid))

\* C7: if an order row names a client that has no row, or an order-item row
\* of an order names a product that has no row, the run is aborted: the
\* write phase is never reached and no document is inserted in that run.
C7_DanglingReferenceAborts ==
    Dangling => (pc \notin {"write", "done"} /\ inserts = 0)

InCritical(t) == tpc[t] \in {"set", "body", "restore"}

\* C8: at most one thread is between saving the process-wide locale and
\* restoring it; no call formats its date under another call's locale, and
\* once every call is over the locale is the one before the calls.
C8_MutualExclusion ==
    /\ Cardinality({t \in Threads : InCritical(t)}) <= 1
    /\ \A t \in Threads :
          tpc[t] = "returned" => tres[t] = WeekdayShortName(tdate[t], tcode[t])
    /\ (\A t \in Threads : t <= nthreads => tpc[t] \in {"returned", "raised"})
          => lc_all = lc0

\* C9: after a call of weekday_short_name on the only thread, whether it
\* returned or raised, the process-wide locale is the one in effect before
\* the call and the call's lock is released.
C9_LocaleRestored ==
    (nthreads = 1 /\ tpc[1] \in {"returned", "raised"}) =>
        /\ lc_all = lc0
        /\ tlock[1] = "released"

\* The body raised after the locale was swapped to another one.
C9_Witness ==
    /\ nthreads = 1 /\ tpc[1] = "raised" /\ texc[1] = "AttributeError"
    /\ tcode[1] # lc0 /\ saved[1] = lc0
    /\ lc_all = lc0 /\ tlock[1] = "released"

\* C10: in every run the destination is written at most once, and an insert
\* happens only when every order row has been aggregated, the cursor and the
\* connection are released, and the unique index on uid was ensured in the
\* same run.
C10_SingleWriteAtEnd ==
    /\ inserts <= 1
    /\ inserts > 0 =>
          /\ Len(orders) = Len(src_orders)
          /\ ~conn_open /\ cur = <<>>
          /\ index_step = "ok" /\ dest_index

\* The part of C10 that does not count the rows: an insert happens at most
\* once a run, after the loop over the cursor has ended and the cursor and
\* connection are released, and only after the index step succeeded.
WriteOnceAfterReadAndIndex ==
    /\ inserts <= 1
    /\ inserts > 0 => (pc = "done" /\ ~conn_open /\ cur = <<>> /\ index_step = "ok" /\ dest_index)
    /\ index_step = "failed" => (inserts = 0 /\ dest = dest_pre)
    /\ pc \in {"connect", "iter", "write"} => dest = dest_pre

====
